---- MODULE Spec2Model ----
(***************************************************************************)
(* Model of scripts/build_pgedge_images.py: the tag model (Tag,            *)
(* PgEdgeImage), the matrix validator (validate_images), the registry      *)
(* oracles (published_digests, index_digest), the drivers (build, sign,    *)
(* add_tag) and the reconciliation loop of main().                         *)
(*                                                                         *)
(* The registry, the signing tool and the builder are external: a registry *)
(* entry is either absent or an image whose manifest list carries a set of *)
(* per-platform digests; the index digest of an entry is content-addressed *)
(* and identified with that set.                                           *)
(***************************************************************************)
EXTENDS Integers, Sequences, FiniteSets, TLC

VARIABLES
    images,         \* all_images: the declared matrix (constant during a behaviour)
    config,         \* Config.from_env(): constant during a behaviour
    registry,       \* tag string -> registry entry
    signed,         \* index digests signed by cosign
    pc,             \* position of main()
    i,              \* index of the image of the outer for loop
    j,              \* index of the tag of the inner for loop
    published,      \* main's local: digests observed for the build tag
    id,             \* main's local: index digest to sign
    calls,          \* external tool invocations of the current run, in order
    run,            \* number of the current invocation of the script
    faults,         \* external faults injected so far (bounded)
    faulted,        \* an external fault was injected in the current run
    prevOutcome,    \* how the previous run ended: "none", "done", "aborted"
    pushed,         \* build tags pushed by a real build in any run
    probe           \* a single function under study with its input and result

vars == <<images, config, registry, signed, pc, i, j, published, id, calls,
          run, faults, faulted, prevOutcome, pushed, probe>>

-----------------------------------------------------------------------------
(* Bounds *)

MaxDigest == 2      \* per-platform manifest digests are 1..MaxDigest
MaxRuns == 2        \* invocations of the script in one behaviour
MaxFaults == 1      \* external tool faults injected in one behaviour
MaxEpoch == 1       \* epochs of the tags and images studied alone are 0..MaxEpoch
MaxManifests == 2   \* entries of a raw manifest list studied alone

-----------------------------------------------------------------------------
(* Optional values: None is <<>>, a present value x is <<x>> *)

None == <<>>

Some(x) == <<x>>

\* Python truthiness of an optional string: None and "" are falsy
TruthyStr(o) == o # None /\ o[1] # ""

\* Python truthiness of an optional int: None and 0 are falsy
TruthyInt(o) == o # None /\ o[1] # 0

-----------------------------------------------------------------------------
(* Tag *)

Tag(postgres_version, spock_version, epoch, flavor) ==
    [postgres_version |-> postgres_version, spock_version |-> spock_version,
     epoch |-> epoch, flavor |-> flavor]

\* Tag.__str__
TagStr(tag) ==
    tag.postgres_version
        \o (IF TruthyStr(tag.spock_version) THEN "-spock" \o tag.spock_version[1] ELSE "")
        \o (IF TruthyStr(tag.flavor) THEN "-" \o tag.flavor[1] ELSE "")
        \o (IF TruthyInt(tag.epoch) THEN "-" \o ToString(tag.epoch[1]) ELSE "")

-----------------------------------------------------------------------------
(* PgEdgeImage *)

PgEdgeImage(postgres_version, spock_version, epoch, is_latest_for_pg_major, is_latest_for_spock_major, flavor) ==
    [postgres_version |-> postgres_version, spock_version |-> spock_version,
     epoch |-> epoch, is_latest_for_pg_major |-> is_latest_for_pg_major,
     is_latest_for_spock_major |-> is_latest_for_spock_major, flavor |-> flavor]

RECURSIVE FirstDot(_, _)
\* index of the first "." of s at or after k, Len(s)+1 when there is none
FirstDot(s, k) ==
    IF k > Len(s) THEN k
    ELSE IF SubSeq(s, k, k) = "." THEN k
    ELSE FirstDot(s, k + 1)

\* s.split(".")[0]
SplitFirst(s) == SubSeq(s, 1, FirstDot(s, 1) - 1)

postgres_major(image) == SplitFirst(image.postgres_version)

spock_major(image) == SplitFirst(image.spock_version)

build_tag(image) ==
    Tag(image.postgres_version, Some(image.spock_version), Some(image.epoch),
        Some(image.flavor))

\* faulty variant of extra_tags: at most two aliases, the second one going
\* straight to both major versions
ExtraTagsTwo(image) ==
    <<Tag(image.postgres_version, Some(image.spock_version), None, Some(image.flavor))>>
    \o (IF image.is_latest_for_spock_major /\ image.is_latest_for_pg_major
        THEN <<Tag(postgres_major(image), Some(spock_major(image)), None,
                   Some(image.flavor))>>
        ELSE <<>>)

\* faulty variant of extra_tags: the two latest flags are tested in the
\* other order
ExtraTagsFlagsSwapped(image) ==
    <<Tag(image.postgres_version, Some(image.spock_version), None, Some(image.flavor))>>
    \o (IF image.is_latest_for_pg_major
        THEN <<Tag(image.postgres_version, Some(spock_major(image)), None,
                   Some(image.flavor))>>
             \o (IF image.is_latest_for_spock_major
                 THEN <<Tag(postgres_major(image), Some(spock_major(image)), None,
                            Some(image.flavor))>>
                 ELSE <<>>)
        ELSE <<>>)

\* faulty variant of extra_tags: the last alias keeps the full postgres
\* version
ExtraTagsCoarsestFull(image) ==
    <<Tag(image.postgres_version, Some(image.spock_version), None, Some(image.flavor))>>
    \o (IF image.is_latest_for_spock_major
        THEN <<Tag(image.postgres_version, Some(spock_major(image)), None,
                   Some(image.flavor))>>
             \o (IF image.is_latest_for_pg_major
                 THEN <<Tag(image.postgres_version, Some(spock_major(image)), None,
                            Some(image.flavor))>>
                 ELSE <<>>)
        ELSE <<>>)

extra_tags(image) ==
    <<Tag(image.postgres_version, Some(image.spock_version), None, Some(image.flavor))>>
    \o (IF image.is_latest_for_spock_major
        THEN <<Tag(image.postgres_version, Some(spock_major(image)), None,
                   Some(image.flavor))>>
             \o (IF image.is_latest_for_pg_major
                 THEN <<Tag(postgres_major(image), Some(spock_major(image)), None,
                            Some(image.flavor))>>
                 ELSE <<>>)
        ELSE <<>>)

all_tags(image) == <<build_tag(image)>> \o extra_tags(image)

\* set(map(str, image.all_tags))
ImageTagStrs(image) == {TagStr(all_tags(image)[k]) : k \in 1..Len(all_tags(image))}

\* every tag string of the matrix
MatrixTagStrs(imgs) == UNION {ImageTagStrs(imgs[k]) : k \in 1..Len(imgs)}

-----------------------------------------------------------------------------
(* Matrix validator *)

RECURSIVE ValidateFrom(_, _, _)
\* the for loop of validate_images from image k on, all_tags being the
\* accumulator: the overlap that raises ValueError, {} when the loop ends
ValidateFrom(imgs, k, seen) ==
    IF k > Len(imgs) THEN {}
    ELSE LET image_tags == ImageTagStrs(imgs[k])
             overlap == seen \cap image_tags
         IN  IF Cardinality(overlap) # 0 THEN overlap
             ELSE ValidateFrom(imgs, k + 1, seen \cup image_tags)

RECURSIVE ValidateBuildTagsFrom(_, _, _)
ValidateBuildTagsFrom(imgs, k, seen) ==
    IF k > Len(imgs) THEN {}
    ELSE LET image_tags == {TagStr(build_tag(imgs[k]))}
             overlap == seen \cap image_tags
         IN  IF Cardinality(overlap) # 0 THEN overlap
             ELSE ValidateBuildTagsFrom(imgs, k + 1, seen \cup image_tags)

\* faulty variant of validate_images: only the build tags are compared
ValidateBuildTagsOnly(imgs) == ValidateBuildTagsFrom(imgs, 1, {})

\* validate_images: the duplicate tags named by the ValueError, {} on success
validate_images(imgs) == ValidateFrom(imgs, 1, {})

-----------------------------------------------------------------------------
(* Registry and oracles *)

Digests == 1..MaxDigest

\* a tag the registry does not hold
Absent == [exists |-> FALSE, manifests |-> {}]

\* a tag pointing at an image whose manifest list holds the digests m
Image(m) == [exists |-> TRUE, manifests |-> m]

Entries == {Absent} \cup {Image(m) : m \in SUBSET Digests}

\* published_digests without a transport fault: imagetools inspect --raw exits
\* non-zero for a missing tag (CalledProcessError -> set()), else the digests
\* of raw.get("manifests", [])
published_digests(reg, tag) ==
    IF reg[tag].exists THEN reg[tag].manifests ELSE {}

\* index_digest of an existing tag: the digest of its top-level manifest
index_digest(reg, tag) == reg[tag].manifests

\* what a real build can push under the build tag: a multi-platform manifest
\* list with at least one platform manifest
BuildOutputs == (SUBSET Digests) \ {{}}

-----------------------------------------------------------------------------
(* Drivers: their effect when the external tool exits zero *)

\* build: returns before the bake command in dry-run mode
build(reg, tag, output, dry_run) ==
    IF dry_run THEN reg ELSE [reg EXCEPT ![tag] = Image(output)]

\* sign: returns before cosign in dry-run mode
sign(sigs, digest, dry_run) ==
    IF dry_run THEN sigs ELSE sigs \cup {digest}

\* faulty variant of add_tag: the dry_run guard is missing
AddTagIgnoringDryRun(reg, existing_tag, new_tag, dry_run) ==
    [reg EXCEPT ![new_tag] = reg[existing_tag]]

\* add_tag: returns before imagetools create in dry-run mode
add_tag(reg, existing_tag, new_tag, dry_run) ==
    IF dry_run THEN reg ELSE [reg EXCEPT ![new_tag] = reg[existing_tag]]

\* faulty variant of the failure path: the error is swallowed and main goes
\* on with the extra tags
ErrorSwallowed == "tag"

\* an uncaught CalledProcessError leaves main
OnCalledProcessError == "aborted"

-----------------------------------------------------------------------------
(* Decisions of main *)

\* faulty variant of the version filters: an image is skipped only when it
\* fails both of them
SkippedWhenBothFail(cfg, image) ==
    /\ cfg.only_postgres_version # "" /\ image.postgres_version # cfg.only_postgres_version
    /\ cfg.only_spock_version # "" /\ image.spock_version # cfg.only_spock_version

\* the version filters of the outer loop
Skipped(cfg, image) ==
    \/ cfg.only_postgres_version # "" /\ image.postgres_version # cfg.only_postgres_version
    \/ cfg.only_spock_version # "" /\ image.spock_version # cfg.only_spock_version

\* faulty variant of Decision A: only republish triggers a build
NeedsBuildRepublishOnly(pub, republish) == republish

\* faulty variant of Decision A: the emptiness test always succeeds
NeedsBuildAlways(pub, republish) == Cardinality(pub) >= 0 \/ republish

\* Decision A
NeedsBuild(pub, republish) == Cardinality(pub) = 0 \/ republish

\* faulty variant of Decision B: the staleness test is missing
NeedsTagNoSubset(tag_published, pub, republish) ==
    Cardinality(tag_published) = 0 \/ republish

\* faulty variant of Decision B: equality instead of the subset test
NeedsTagEquality(tag_published, pub, republish) ==
    \/ Cardinality(tag_published) = 0
    \/ tag_published # pub
    \/ republish

\* Decision B
NeedsTag(tag_published, pub, republish) ==
    \/ Cardinality(tag_published) = 0
    \/ ~(tag_published \subseteq pub)
    \/ republish

-----------------------------------------------------------------------------
(* Matrices and configurations the behaviours start from *)

\* the variant of the end-to-end scenario, as declared in all_images
Image176 == PgEdgeImage("17.6", "5.0.4", 1, TRUE, TRUE, "standard")

Matrices ==
    { <<Image176>>,
      <<PgEdgeImage("16.10", "5.0.4", 1, FALSE, FALSE, "minimal"),
        PgEdgeImage("17.6", "5.0.3", 1, FALSE, FALSE, "minimal")>>,
      \* the same variant declared twice: the build tags coincide
      <<PgEdgeImage("17.6", "5.0.4", 1, FALSE, FALSE, "minimal"),
        PgEdgeImage("17.6", "5.0.4", 1, FALSE, FALSE, "minimal")>>,
      \* two epochs of one version: the epoch-less aliases coincide
      <<PgEdgeImage("17.6", "5.0.4", 1, FALSE, FALSE, "standard"),
        PgEdgeImage("17.6", "5.0.4", 2, FALSE, FALSE, "standard")>>,
      \* epoch 0: the build tag renders like its own epoch-less alias
      <<PgEdgeImage("17.6", "5.0.4", 0, FALSE, FALSE, "standard")>>,
      \* a spock version without minor part: the two aliases coincide
      <<PgEdgeImage("17.6", "5", 1, FALSE, TRUE, "minimal")>> }

Configs ==
    [republish : BOOLEAN, dry_run : BOOLEAN,
     only_postgres_version : {"", "17.6"}, only_spock_version : {"", "5.0.4"}]

-----------------------------------------------------------------------------
(* The state machine *)

\* one external tool invocation: extra is 0 for the build tag and the index
\* of the extra tag otherwise, result the digests a query returned, ok
\* whether the call returned without CalledProcessError
Call(op, image, extra, tag, result, ok) ==
    [op |-> op, image |-> image, extra |-> extra, tag |-> tag,
     result |-> result, ok |-> ok]

BuildTagStr == TagStr(build_tag(images[i]))

\* faulty variant of the inner loop: the extra tags are visited in reverse
ExtraTagStrReversed ==
    TagStr(extra_tags(images[i])[Len(extra_tags(images[i])) + 1 - j])

ExtraTagStr == TagStr(extra_tags(images[i])[j])

\* main is running: no function is studied alone
NoProbe == [kind |-> "none"]

Init ==
    /\ images \in Matrices
    /\ config \in Configs
    /\ registry \in [MatrixTagStrs(images) -> Entries]
    /\ signed = {}
    /\ pc = "validate"
    /\ i = 1
    /\ j = 1
    /\ published = {}
    /\ id = None
    /\ calls = <<>>
    /\ run = 1
    /\ faults = 0
    /\ faulted = FALSE
    /\ prevOutcome = "none"
    /\ pushed = {}
    /\ probe = NoProbe

\* main, line 329: validate_images(all_images)
Validate ==
    /\ pc = "validate"
    /\ pc' = IF validate_images(images) = {} THEN "image" ELSE "invalid"
    /\ i' = 1
    /\ UNCHANGED <<probe, images, config, registry, signed, j, published, id, calls,
                   run, faults, faulted, prevOutcome, pushed>>

\* main, lines 331-340: an image the filters exclude
SkipImage ==
    /\ pc = "image"
    /\ i <= Len(images)
    /\ Skipped(config, images[i])
    /\ i' = i + 1
    /\ UNCHANGED <<probe, images, config, registry, signed, pc, j, published, id, calls,
                   run, faults, faulted, prevOutcome, pushed>>

\* what a published_digests call can return, as <<digests, inspect exited
\* zero, transport fault>>: the registry's answer, or the empty set when the
\* inspection of an existing tag fails
Observations(tag) ==
    {<<published_digests(registry, tag), registry[tag].exists, FALSE>>}
        \cup (IF faults < MaxFaults /\ published_digests(registry, tag) # {}
              THEN {<<{}, FALSE, TRUE>>} ELSE {})

\* main, lines 342-343 and 358-359: observe the build tag, Decision A
CheckPublished ==
    /\ pc = "image"
    /\ i <= Len(images)
    /\ ~Skipped(config, images[i])
    /\ \E obs \in Observations(BuildTagStr) :
        /\ published' = obs[1]
        /\ faults' = IF obs[3] THEN faults + 1 ELSE faults
        /\ faulted' = (faulted \/ obs[3])
        /\ calls' = Append(calls,
                           Call("published_digests", i, 0, BuildTagStr, obs[1], obs[2]))
        /\ pc' = IF NeedsBuild(obs[1], config.republish) THEN "build" ELSE "tag"
    /\ j' = 1
    /\ UNCHANGED <<probe, images, config, registry, signed, i, id, run, prevOutcome, pushed>>

\* main, lines 344-350: the build driver, the bake command exiting zero or not
Build ==
    /\ pc = "build"
    /\ \/ /\ \E output \in BuildOutputs :
                registry' = build(registry, BuildTagStr, output, config.dry_run)
          /\ pushed' = IF config.dry_run THEN pushed ELSE pushed \cup {BuildTagStr}
          /\ calls' = Append(calls, Call("build", i, 0, BuildTagStr, {}, TRUE))
          /\ pc' = "index_digest"
          /\ UNCHANGED <<faults, faulted>>
       \/ /\ ~config.dry_run
          /\ faults < MaxFaults
          /\ faults' = faults + 1
          /\ faulted' = TRUE
          /\ calls' = Append(calls, Call("build", i, 0, BuildTagStr, {}, FALSE))
          /\ pc' = OnCalledProcessError
          /\ UNCHANGED <<registry, pushed>>
    /\ UNCHANGED <<probe, images, config, signed, i, j, published, id, run, prevOutcome>>

\* main, line 352: index_digest is not guarded by dry_run; inspecting a tag
\* the registry does not hold exits non-zero
IndexDigest ==
    /\ pc = "index_digest"
    /\ \/ /\ registry[BuildTagStr].exists
          /\ id' = Some(index_digest(registry, BuildTagStr))
          /\ calls' = Append(calls, Call("index_digest", i, 0, BuildTagStr, {}, TRUE))
          /\ pc' = "sign"
          /\ UNCHANGED <<faults, faulted>>
       \/ /\ ~registry[BuildTagStr].exists
          /\ calls' = Append(calls, Call("index_digest", i, 0, BuildTagStr, {}, FALSE))
          /\ pc' = OnCalledProcessError
          /\ UNCHANGED <<id, faults, faulted>>
       \/ /\ registry[BuildTagStr].exists
          /\ faults < MaxFaults
          /\ faults' = faults + 1
          /\ faulted' = TRUE
          /\ calls' = Append(calls, Call("index_digest", i, 0, BuildTagStr, {}, FALSE))
          /\ pc' = OnCalledProcessError
          /\ UNCHANGED id
    /\ UNCHANGED <<probe, images, config, registry, signed, i, j, published, run,
                   prevOutcome, pushed>>

\* main, lines 353-357: the sign driver, cosign exiting zero or not
Sign ==
    /\ pc = "sign"
    /\ \/ /\ signed' = sign(signed, id[1], config.dry_run)
          /\ calls' = Append(calls, Call("sign", i, 0, BuildTagStr, {}, TRUE))
          /\ pc' = "tag"
          /\ UNCHANGED <<faults, faulted>>
       \/ /\ ~config.dry_run
          /\ faults < MaxFaults
          /\ faults' = faults + 1
          /\ faulted' = TRUE
          /\ calls' = Append(calls, Call("sign", i, 0, BuildTagStr, {}, FALSE))
          /\ pc' = OnCalledProcessError
          /\ UNCHANGED signed
    /\ UNCHANGED <<probe, images, config, registry, i, j, published, id, run,
                   prevOutcome, pushed>>

\* main, lines 361-367 and 374-375: observe an extra tag, Decision B
CheckTag ==
    /\ pc = "tag"
    /\ j <= Len(extra_tags(images[i]))
    /\ \E obs \in Observations(ExtraTagStr) :
        /\ faults' = IF obs[3] THEN faults + 1 ELSE faults
        /\ faulted' = (faulted \/ obs[3])
        /\ calls' = Append(calls,
                           Call("published_digests", i, j, ExtraTagStr, obs[1], obs[2]))
        /\ IF NeedsTag(obs[1], published, config.republish)
           THEN pc' = "add_tag" /\ j' = j
           ELSE pc' = "tag" /\ j' = j + 1
    /\ UNCHANGED <<probe, images, config, registry, signed, i, published, id, run,
                   prevOutcome, pushed>>

\* main, lines 368-373: the alias-create driver; imagetools create exits
\* non-zero when the source tag does not exist
AddTag ==
    /\ pc = "add_tag"
    /\ \/ /\ config.dry_run \/ registry[BuildTagStr].exists
          /\ registry' = add_tag(registry, BuildTagStr, ExtraTagStr, config.dry_run)
          /\ calls' = Append(calls, Call("add_tag", i, j, ExtraTagStr, {}, TRUE))
          /\ pc' = "tag"
          /\ j' = j + 1
          /\ UNCHANGED <<faults, faulted>>
       \/ /\ ~config.dry_run
          /\ ~registry[BuildTagStr].exists
          /\ calls' = Append(calls, Call("add_tag", i, j, ExtraTagStr, {}, FALSE))
          /\ pc' = OnCalledProcessError
          /\ UNCHANGED <<registry, j, faults, faulted>>
       \/ /\ ~config.dry_run
          /\ registry[BuildTagStr].exists
          /\ faults < MaxFaults
          /\ faults' = faults + 1
          /\ faulted' = TRUE
          /\ calls' = Append(calls, Call("add_tag", i, j, ExtraTagStr, {}, FALSE))
          /\ pc' = OnCalledProcessError
          /\ UNCHANGED <<registry, j>>
    /\ UNCHANGED <<probe, images, config, signed, i, published, id, run, prevOutcome, pushed>>

\* main, line 361: the inner loop is exhausted, next image
NextImage ==
    /\ pc = "tag"
    /\ j > Len(extra_tags(images[i]))
    /\ pc' = "image"
    /\ i' = i + 1
    /\ UNCHANGED <<probe, images, config, registry, signed, j, published, id, calls,
                   run, faults, faulted, prevOutcome, pushed>>

\* main, line 331: the outer loop is exhausted, main returns
Finish ==
    /\ pc = "image"
    /\ i > Len(images)
    /\ pc' = "done"
    /\ UNCHANGED <<probe, images, config, registry, signed, i, j, published, id, calls,
                   run, faults, faulted, prevOutcome, pushed>>

\* the script is invoked again with the same environment against the
\* registry the previous run left; prevOutcome keeps "done" or the tool
\* whose failure aborted the previous run
Rerun ==
    /\ pc \in {"done", "aborted"}
    /\ run < MaxRuns
    /\ run' = run + 1
    /\ prevOutcome' = IF pc = "done" THEN "done" ELSE calls[Len(calls)].op
    /\ pc' = "validate"
    /\ i' = 1
    /\ j' = 1
    /\ published' = {}
    /\ id' = None
    /\ calls' = <<>>
    /\ faulted' = FALSE
    /\ UNCHANGED <<probe, images, config, registry, signed, faults, pushed>>

Next ==
    \/ Validate
    \/ SkipImage
    \/ CheckPublished
    \/ Build
    \/ IndexDigest
    \/ Sign
    \/ CheckTag
    \/ AddTag
    \/ NextImage
    \/ Finish
    \/ Rerun

Spec == Init /\ [][Next]_vars

-----------------------------------------------------------------------------
(* Reading the call log *)

CallIdx == 1..Len(calls)

\* the driver invocations of the current run for image v
Invocations(op, v) == {k \in CallIdx : calls[k].op = op /\ calls[k].image = v}

\* the images whose build tag has been observed in the current run
Observed(v) == \E k \in CallIdx :
    calls[k].op = "published_digests" /\ calls[k].image = v /\ calls[k].extra = 0

\* the digest set observed for the build tag of image v in the current run
PublishedOf(v) ==
    calls[CHOOSE k \in CallIdx :
            calls[k].op = "published_digests" /\ calls[k].image = v
            /\ calls[k].extra = 0].result

\* Decision A for image v is over: main has left lines 342-359 for it,
\* or left main altogether
DecisionADone(v) ==
    /\ Observed(v)
    /\ i # v \/ pc \notin {"build", "index_digest", "sign"}

IsDriverCall(c) == c.op \in {"build", "sign", "add_tag"}

\* the build, sign and alias-create invocations of the current run, in order
DriverOps ==
    LET d == SelectSeq(calls, IsDriverCall)
    IN  [k \in 1..Len(d) |-> d[k].op]

-----------------------------------------------------------------------------
(* Decision A *)

\* C1: for every image that passes the filters, once Decision A is over in a
\* run without external fault: an empty observed digest set means exactly
\* one build and one sign invocation for it, a non-empty one without
\* republish means none, a non-empty one with republish means both are
\* invoked.
C1_DecisionA ==
    \A v \in 1..Len(images) :
        (DecisionADone(v) /\ ~faulted) =>
            LET builds == Cardinality(Invocations("build", v))
                signs == Cardinality(Invocations("sign", v))
            IN  /\ PublishedOf(v) = {} => builds = 1 /\ signs = 1
                /\ (PublishedOf(v) # {} /\ ~config.republish) => builds = 0 /\ signs = 0
                /\ (PublishedOf(v) # {} /\ config.republish) => builds >= 1 /\ signs >= 1

\* Decision A as stated in C1, outside dry-run mode
DecisionA_NotDryRun == ~config.dry_run => C1_DecisionA

-----------------------------------------------------------------------------
(* Decision B *)

\* the queries of extra tags whose decision has been acted on: the query is
\* not the pending one of an add_tag about to be invoked
DecidedTagQueries ==
    {k \in CallIdx :
        /\ calls[k].op = "published_digests"
        /\ calls[k].extra > 0
        /\ k < Len(calls) \/ pc # "add_tag"}

\* the alias-create driver was invoked for the extra tag queried at k
AliasCreated(k) ==
    /\ k < Len(calls)
    /\ calls[k + 1].op = "add_tag"
    /\ calls[k + 1].tag = calls[k].tag
    /\ calls[k + 1].image = calls[k].image

\* C2: for every extra tag observed of an image that passes the filters, the
\* alias-create driver is invoked for it if and only if the observed digest
\* set is empty, or is not a subset of the digest set observed for the build
\* tag, or republish is set.
C2_DecisionB ==
    \A k \in DecidedTagQueries :
        AliasCreated(k) <=>
            \/ calls[k].result = {}
            \/ ~(calls[k].result \subseteq PublishedOf(calls[k].image))
            \/ config.republish

\* a non-empty strict subset of the build tag's digests was left alone and,
\* in the same run, an alias holding a digest the build tag lacks was recreated
C2_Witness ==
    /\ ~config.republish
    /\ \E k \in DecidedTagQueries :
        /\ calls[k].result # {}
        /\ calls[k].result \subseteq PublishedOf(calls[k].image)
        /\ calls[k].result # PublishedOf(calls[k].image)
        /\ ~AliasCreated(k)
    /\ \E k \in DecidedTagQueries :
        /\ PublishedOf(calls[k].image) # {}
        /\ ~(calls[k].result \subseteq PublishedOf(calls[k].image))
        /\ AliasCreated(k)

-----------------------------------------------------------------------------
(* Recovery by rerunning *)

\* the target state for image v: the build tag is published, what the
\* reconciler pushed under it is signed, and every extra tag is published
\* with digests of the build tag
Reconciled(v) ==
    LET bt == TagStr(build_tag(images[v]))
        extras == extra_tags(images[v])
    IN  /\ published_digests(registry, bt) # {}
        /\ bt \in pushed => index_digest(registry, bt) \in signed
        /\ \A k \in 1..Len(extras) :
            /\ published_digests(registry, TagStr(extras[k])) # {}
            /\ published_digests(registry, TagStr(extras[k]))
                   \subseteq published_digests(registry, bt)

\* a real run without republish has returned from main and no external
\* fault was injected in it
CleanRunDone == pc = "done" /\ ~faulted /\ ~config.republish /\ ~config.dry_run

\* every run that completes reaches the target state as long as no external
\* fault was ever injected
FailureFreeTarget ==
    (CleanRunDone /\ faults = 0) =>
        \A v \in 1..Len(images) : ~Skipped(config, images[v]) => Reconciled(v)

\* C3: after a run aborted by a failure of the build, sign or alias-create
\* driver, a rerun without republish and without further failure reaches
\* the target state of a failure-free run: every build tag published and
\* signed, every extra tag at digests of its build tag.
C3_RerunConverges ==
    (CleanRunDone /\ prevOutcome \in {"build", "sign", "add_tag"}) =>
        \A v \in 1..Len(images) : ~Skipped(config, images[v]) => Reconciled(v)

-----------------------------------------------------------------------------
(* Dry-run mode *)

\* C4: in dry-run mode, without external fault, the run does not abort (so
\* that Decision B is evaluated for the extra tags of an unpublished build
\* tag and for the following images).
C4_DryRunDoesNotAbort ==
    (config.dry_run /\ ~faulted) => pc # "aborted"


\* C5: in dry-run mode no step of any run changes the registry contents or
\* the set of signed digests.
C5_DryRunFrame == [][config.dry_run => UNCHANGED <<registry, signed>>]_vars

\* a dry run has gone through the build, sign and alias-create drivers
C5_Witness ==
    /\ config.dry_run
    /\ \E v \in 1..Len(images) :
        /\ Invocations("build", v) # {}
        /\ Invocations("sign", v) # {}
        /\ Invocations("add_tag", v) # {}

-----------------------------------------------------------------------------
(* Matrix validation *)

\* two different images of the matrix render a common tag string
Collides(imgs) ==
    \E a, b \in 1..Len(imgs) :
        a # b /\ ImageTagStrs(imgs[a]) \cap ImageTagStrs(imgs[b]) # {}

\* C6: when two images of the matrix render a common tag string, the run
\* ends in the configuration error before any image is processed: no query
\* and no driver call is made and nothing is pushed or signed.
C6_CollisionFailsFast ==
    Collides(images) =>
        /\ pc \in {"validate", "invalid"}
        /\ calls = <<>>
        /\ pushed = {}
        /\ signed = {}

\* validation has rejected a matrix whose build tags differ and whose
\* aliases collide
C6_Witness ==
    /\ pc = "invalid"
    /\ Collides(images)
    /\ TagStr(build_tag(images[1])) # TagStr(build_tag(images[2]))

\* the positions <<image, tag>> of the rendered tags of the matrix
TagPositions(imgs) ==
    {<<a, k>> : a \in 1..Len(imgs), k \in 1..4} \cap
        {p \in (1..Len(imgs)) \X (1..4) : p[2] <= Len(all_tags(imgs[p[1]]))}

TagAt(imgs, p) == TagStr(all_tags(imgs[p[1]])[p[2]])

\* C7: once validation has succeeded, no rendered tag string occurs more
\* than once among the all_tags of all images, within one image as well as
\* across images.
C7_ValidatedTagsUnique ==
    pc \notin {"validate", "invalid"} =>
        \A p, q \in TagPositions(images) :
            p # q => TagAt(images, p) # TagAt(images, q)

-----------------------------------------------------------------------------
(* Failure semantics *)

\* C8: a build, sign or alias-create invocation that exits non-zero is the
\* last tool invocation of its run, and the run is aborted: no digest query
\* and no driver call follows it.
C8_FailureAborts ==
    \A k \in CallIdx :
        (IsDriverCall(calls[k]) /\ ~calls[k].ok) =>
            k = Len(calls) /\ pc = "aborted"

\* an alias-create failed while an extra tag and a later image were still
\* to be processed
C8_Witness ==
    /\ pc = "aborted"
    /\ calls # <<>>
    /\ calls[Len(calls)].op = "add_tag"
    /\ ~calls[Len(calls)].ok
    /\ i < Len(images)

-----------------------------------------------------------------------------
(* Idempotence *)

\* C9: a run without republish and outside dry-run mode that follows a
\* completed run with the same configuration, and meets no external fault,
\* invokes no build, no sign and no alias-create.
C9_SecondRunIdle ==
    (run > 1 /\ prevOutcome = "done" /\ ~faulted
        /\ ~config.republish /\ ~config.dry_run) =>
        \A k \in CallIdx : calls[k].op = "published_digests"

\* the second run has completed after a first run that pushed a build tag,
\* and it has queried a build tag and an extra tag
C9_Witness ==
    /\ run > 1 /\ prevOutcome = "done" /\ ~faulted
    /\ ~config.republish /\ ~config.dry_run
    /\ pc = "done"
    /\ pushed # {}
    /\ Len(calls) >= 2

-----------------------------------------------------------------------------
(* End-to-end scenario *)

\* the scenario: the first run, outside dry-run mode, of the single-image
\* matrix, without external fault, every tag inspected so far being missing
Scenario ==
    /\ images = <<Image176>>
    /\ run = 1
    /\ ~config.dry_run
    /\ ~faulted
    /\ \A k \in CallIdx : calls[k].op = "published_digests" => ~calls[k].ok

IsPrefix(s, t) == Len(s) <= Len(t) /\ s = SubSeq(t, 1, Len(s))

\* C10 as stated: the run ends having issued 1 build, then 1 sign, then 2
\* alias-create calls
C10_TwoAliases ==
    (Scenario /\ pc = "done") =>
        DriverOps = <<"build", "sign", "add_tag", "add_tag">>

\* C10: for the single-image matrix {17.6, 5.0.4, epoch 1, standard, both
\* latest flags} run outside dry-run mode against an empty registry, the
\* reconciler issues exactly 1 build, then 1 sign, then 3 alias-create
\* calls, in that order: the run does not abort, its driver calls are at any
\* time a prefix of that sequence, and all of it when main returns.
C10_ThreeAliases ==
    Scenario =>
        /\ pc \notin {"aborted", "invalid"}
        /\ IsPrefix(DriverOps, <<"build", "sign", "add_tag", "add_tag", "add_tag">>)
        /\ pc = "done" =>
            DriverOps = <<"build", "sign", "add_tag", "add_tag", "add_tag">>

\* the scenario has run to its end
C10_Witness == Scenario /\ pc = "done" /\ Len(DriverOps) = 5

-----------------------------------------------------------------------------
(* Filtering *)

\* a configured primary or secondary version filter does not match image v
FilteredOut(v) ==
    \/ /\ config.only_postgres_version # ""
       /\ images[v].postgres_version # config.only_postgres_version
    \/ /\ config.only_spock_version # ""
       /\ images[v].spock_version # config.only_spock_version

\* C11: an image that a configured version filter does not match is skipped
\* entirely: no step makes a digest query or a build, sign or alias-create
\* call for it or for any of its tags, and no step changes the registry
\* entries of its tags.
C11_FilteredUntouched ==
    [][\A v \in 1..Len(images) :
          FilteredOut(v) =>
            /\ \A t \in ImageTagStrs(images[v]) : registry'[t] = registry[t]
            /\ \A k \in 1..Len(calls') :
                 calls'[k].image # v /\ calls'[k].tag \notin ImageTagStrs(images[v])]_vars

\* a real run has returned from main having skipped one image and pushed
\* and aliased another
C11_Witness ==
    /\ pc = "done"
    /\ ~config.dry_run
    /\ \E v \in 1..Len(images) : FilteredOut(v)
    /\ \E k \in CallIdx : calls[k].op = "add_tag" /\ calls[k].ok
    /\ pushed # {}

-----------------------------------------------------------------------------
(* Sequencing *)

\* the position of a call within the processing of its image: the build tag
\* query, build, index digest, sign, then query and alias-create of each
\* extra tag in turn
StageOf(c) ==
    IF c.extra = 0
    THEN CASE c.op = "published_digests" -> 0
           [] c.op = "build" -> 1
           [] c.op = "index_digest" -> 2
           [] c.op = "sign" -> 3
    ELSE 2 + 2 * c.extra + (IF c.op = "add_tag" THEN 1 ELSE 0)

\* the tag a call is about, read off the matrix
TagOfCall(c) ==
    IF c.extra = 0 THEN TagStr(build_tag(images[c.image]))
    ELSE TagStr(extra_tags(images[c.image])[c.extra])

\* C16: the calls of a run are strictly sequential: images in matrix order
\* and, within an image, build tag query, build, index digest, sign, then
\* the extra tags in extra_tags order; the index digest is fetched only
\* after a completed build and sign is invoked only on a fetched digest.
C16_Sequential ==
    /\ \A k \in CallIdx : calls[k].tag = TagOfCall(calls[k])
    /\ \A k \in CallIdx : k < Len(calls) =>
        \/ calls[k].image < calls[k + 1].image
        \/ /\ calls[k].image = calls[k + 1].image
           /\ StageOf(calls[k]) < StageOf(calls[k + 1])
    /\ \A k \in CallIdx :
        /\ calls[k].op = "index_digest" =>
            k > 1 /\ calls[k - 1].op = "build" /\ calls[k - 1].ok
                  /\ calls[k - 1].image = calls[k].image
        /\ calls[k].op = "sign" =>
            k > 1 /\ calls[k - 1].op = "index_digest" /\ calls[k - 1].ok
                  /\ calls[k - 1].image = calls[k].image

\* a run has built, signed and aliased the three extra tags of an image, or
\* has built and aliased two images one after the other
C16_Witness ==
    /\ pc = "done"
    /\ \E k \in CallIdx : calls[k].op = "build"
    /\ \/ \E k \in CallIdx : calls[k].op = "add_tag" /\ calls[k].extra = 3
       \/ /\ Invocations("build", 1) # {}
          /\ Invocations("add_tag", 2) # {}

-----------------------------------------------------------------------------
(* Build and aliases *)

\* the build driver has pushed the build tag of image v in the current run
Built(v) == \E k \in Invocations("build", v) : calls[k].ok

\* C18: in a real run, once main has moved past an image whose build tag it
\* built, it has created every extra tag of that image by alias-create,
\* whatever digests the extra tags held before.
C18_BuildRecreatesAliases ==
    \A v \in 1..Len(images) :
        (~config.dry_run /\ Built(v) /\ i > v) =>
            \A e \in 1..Len(extra_tags(images[v])) :
                \E k \in Invocations("add_tag", v) : calls[k].extra = e /\ calls[k].ok

\* without republish, an image was built and an extra tag of it that held
\* digests was recreated, and main has moved on
C18_Witness ==
    /\ ~config.dry_run
    /\ ~config.republish
    /\ \E v \in 1..Len(images) :
        /\ Built(v)
        /\ i > v
        /\ \E k \in DecidedTagQueries :
            calls[k].image = v /\ calls[k].result # {} /\ AliasCreated(k)

\* C19: in a real run, alias-create is only invoked while the build tag of
\* the image is in the registry, and after main has either observed a
\* non-empty digest set for that build tag or completed a build of it.
C19_AliasHasSource ==
    (pc = "add_tag" /\ ~config.dry_run) =>
        /\ registry[BuildTagStr].exists
        /\ PublishedOf(i) # {} \/ Built(i)

\* alias-create is about to run for a build tag that was missing when
\* observed and has just been built
C19_Witness ==
    /\ pc = "add_tag"
    /\ ~config.dry_run
    /\ PublishedOf(i) = {}
    /\ Built(i)

-----------------------------------------------------------------------------
(* The digest oracle on the inspection's raw outcome *)

\* the manifest entries a raw document can list: a "digest" field or none
ManifestEntries == {None} \cup {Some(d) : d \in Digests}

\* the documents imagetools inspect --raw can print: has_manifests tells
\* whether the "manifests" key is there
RawDocs ==
    {[has_manifests |-> FALSE, manifests |-> <<>>]}
        \cup UNION {[has_manifests : {TRUE}, manifests : [1..n -> ManifestEntries]] :
                        n \in 0..MaxManifests}

\* the outcomes of the inspection: a non-zero exit (missing tag, transport
\* or registry failure) or a raw document
InspectOutcomes ==
    {[exit |-> 1, raw |-> [has_manifests |-> FALSE, manifests |-> <<>>]]}
        \cup [exit : {0}, raw : RawDocs]

\* the set comprehension of published_digests over raw.get("manifests", [])
ManifestDigests(raw) ==
    {raw.manifests[k][1] : k \in {n \in 1..Len(raw.manifests) : raw.manifests[n] # None}}

\* faulty variant of published_digests: CalledProcessError is not caught
PublishedDigestsNoExcept(outcome) ==
    IF outcome.exit # 0
    THEN [raised |-> TRUE, digests |-> {}]
    ELSE [raised |-> FALSE, digests |-> ManifestDigests(outcome.raw)]

\* published_digests on an outcome of the inspection: whether an exception
\* leaves the function, and the digest set returned otherwise
PublishedDigestsOf(outcome) ==
    IF outcome.exit # 0
    THEN [raised |-> FALSE, digests |-> {}]
    ELSE [raised |-> FALSE, digests |-> ManifestDigests(outcome.raw)]

-----------------------------------------------------------------------------
(* The build driver's command *)

bake_cmd(args) == <<"docker", "buildx", "bake", "--file", "pgedge.docker-bake.hcl">> \o args

\* the bake_args list build assembles
BakeArgs(no_cache, only_arch) ==
    <<"--push">>
        \o (IF no_cache THEN <<"--no-cache">> ELSE <<>>)
        \o (IF only_arch # "" THEN <<"--set", "default.platforms=linux/" \o only_arch>>
            ELSE <<>>)

\* the command build executes: bake_cmd("--push"), whatever bake_args holds
BuildCommand(no_cache, only_arch) == bake_cmd(<<"--push">>)

RECURSIVE Replace(_, _, _)
\* str.replace(old, new): every occurrence, left to right
Replace(s, old, new) ==
    IF Len(s) < Len(old) THEN s
    ELSE IF SubSeq(s, 1, Len(old)) = old
         THEN new \o Replace(SubSeq(s, Len(old) + 1, Len(s)), old, new)
         ELSE SubSeq(s, 1, 1) \o Replace(SubSeq(s, 2, Len(s)), old, new)

\* str.startswith
StartsWith(s, prefix) == Len(prefix) <= Len(s) /\ SubSeq(s, 1, Len(prefix)) = prefix

\* the repository build pushes to: a local registry is reached through the
\* builder container's host alias
BuildRepo(repo) ==
    IF StartsWith(repo, "127.0.0.1")
    THEN Replace(repo, "127.0.0.1", "host.docker.internal")
    ELSE repo

\* PgEdgeImage.package_list
package_list(image) ==
    "pg" \o image.postgres_version \o "-spock" \o image.spock_version
        \o (IF image.flavor # "" THEN "-" \o image.flavor ELSE "")
        \o ".txt"

\* build: no invocation in dry-run mode, else the command and the
\* variables it adds to the environment
BuildInvocation(repo, image, dry_run, no_cache, only_arch) ==
    IF dry_run THEN [invoked |-> FALSE, cmd |-> <<>>, env |-> <<>>]
    ELSE [invoked |-> TRUE,
          cmd |-> BuildCommand(no_cache, only_arch),
          env |-> [POSTGRES_MAJOR_VERSION |-> postgres_major(image),
                   PACKAGE_LIST_FILE |-> package_list(image),
                   TAG |-> BuildRepo(repo) \o ":" \o TagStr(build_tag(image)),
                   TARGET |-> image.flavor]]

-----------------------------------------------------------------------------
(* Functions studied alone: inputs drawn from bounded sets *)

Epochs == 0..MaxEpoch

TagInputs ==
    [postgres_version : {"17.6", "17"},
     spock_version : {None, Some("5.0.4"), Some("5")},
     epoch : {None} \cup {Some(e) : e \in Epochs},
     flavor : {None, Some("minimal"), Some("standard")}]

ImageInputs ==
    [postgres_version : {"17.6", "16.10", "17"},
     spock_version : {"5.0.4", "5"},
     epoch : Epochs,
     is_latest_for_pg_major : BOOLEAN,
     is_latest_for_spock_major : BOOLEAN,
     flavor : {"minimal", "standard", ""}]

BuildInputs ==
    [repo : {"127.0.0.1:5000/pgedge-postgres", "ghcr.io/pgedge/pgedge-postgres"},
     image : {Image176, PgEdgeImage("16.10", "5.0.4", 1, TRUE, TRUE, "minimal")},
     dry_run : BOOLEAN,
     no_cache : BOOLEAN,
     only_arch : {"", "amd64", "arm64"}]

Probes ==
    [kind : {"render"}, a : TagInputs, b : TagInputs, out : {None}]
        \cup [kind : {"derive"}, image : ImageInputs, out : {None}]
        \cup [kind : {"inspect"}, outcome : InspectOutcomes, out : {None}]
        \cup [kind : {"build"}, args : BuildInputs, out : {None}]

InitFun ==
    /\ probe \in Probes
    /\ images = <<>>
    /\ config = [republish |-> FALSE, dry_run |-> FALSE,
                 only_postgres_version |-> "", only_spock_version |-> ""]
    /\ registry = <<>>
    /\ signed = {}
    /\ pc = "idle"
    /\ i = 1
    /\ j = 1
    /\ published = {}
    /\ id = None
    /\ calls = <<>>
    /\ run = 1
    /\ faults = 0
    /\ faulted = FALSE
    /\ prevOutcome = "none"
    /\ pushed = {}

MainVars == <<images, config, registry, signed, pc, i, j, published, id, calls,
              run, faults, faulted, prevOutcome, pushed>>

\* str() of two tags
RenderTags ==
    /\ probe.kind = "render"
    /\ probe.out = None
    /\ probe' = [probe EXCEPT !.out = Some(<<TagStr(probe.a), TagStr(probe.b)>>)]
    /\ UNCHANGED MainVars

\* build_tag and extra_tags of an image
DeriveTags ==
    /\ probe.kind = "derive"
    /\ probe.out = None
    /\ probe' = [probe EXCEPT !.out = Some([build_tag |-> build_tag(probe.image),
                                            extra_tags |-> extra_tags(probe.image)])]
    /\ UNCHANGED MainVars

\* published_digests on one outcome of the inspection
InspectTag ==
    /\ probe.kind = "inspect"
    /\ probe.out = None
    /\ probe' = [probe EXCEPT !.out = Some(PublishedDigestsOf(probe.outcome))]
    /\ UNCHANGED MainVars

\* build with one set of arguments
RunBuild ==
    /\ probe.kind = "build"
    /\ probe.out = None
    /\ probe' = [probe EXCEPT !.out =
                    Some(BuildInvocation(probe.args.repo, probe.args.image,
                                         probe.args.dry_run, probe.args.no_cache,
                                         probe.args.only_arch))]
    /\ UNCHANGED MainVars

NextFun ==
    \/ RenderTags
    \/ DeriveTags
    \/ InspectTag
    \/ RunBuild

SpecFun == InitFun /\ [][NextFun]_vars

-----------------------------------------------------------------------------
(* The digest oracle never aborts *)

\* the outcome under study yields no digest: the inspection failed, or its
\* document has no manifest list, or no entry of the list has a digest
NoDigestCase(outcome) ==
    \/ outcome.exit # 0
    \/ ~outcome.raw.has_manifests
    \/ \A k \in 1..Len(outcome.raw.manifests) : outcome.raw.manifests[k] = None

\* C12: published_digests lets no exception out, whatever the inspection
\* did; when the inspection exits non-zero (missing tag, transport or
\* registry failure), or its document has no manifests array, or no entry
\* has a digest, the result is the empty set, and on the empty set the
\* reconciler decides to build (as a build tag) and to create the alias
\* (as an alias, whatever the build tag's digests are).
C12_OracleNeverAborts ==
    (probe.kind = "inspect" /\ probe.out # None) =>
        /\ ~probe.out[1].raised
        /\ NoDigestCase(probe.outcome) =>
              /\ probe.out[1].digests = {}
              /\ NeedsBuild(probe.out[1].digests, FALSE)
              /\ \A pub \in SUBSET Digests : NeedsTag(probe.out[1].digests, pub, FALSE)

\* the oracle has answered a failed inspection
C12_Witness ==
    /\ probe.kind = "inspect"
    /\ probe.out # None
    /\ probe.outcome.exit # 0

-----------------------------------------------------------------------------
(* The alias list of one image *)

\* the image under study has its tags derived
Derived == probe.kind = "derive" /\ probe.out # None

\* a string has no "." in it
NoDot(s) == FirstDot(s, 1) > Len(s)

\* tag u is no more specific than tag t: each version of u is a prefix of
\* t's, the flavor is kept, and u has an epoch only if t has it
NoFiner(t, u) ==
    /\ IsPrefix(u.postgres_version, t.postgres_version)
    /\ IsPrefix(u.spock_version[1], t.spock_version[1])
    /\ u.flavor = t.flavor
    /\ u.epoch \in {None, t.epoch}

\* the alias list goes from more to less specific
Coarsening(tags) == \A k \in 1..(Len(tags) - 1) : NoFiner(tags[k], tags[k + 1])

\* no two neighbours of the alias list are the same tag
StrictlyOrdered(tags) == \A k \in 1..(Len(tags) - 1) : tags[k] # tags[k + 1]

\* the last alias has the major versions only and no epoch
CoarsestIsMajors(image, tags) ==
    /\ tags[Len(tags)].postgres_version = postgres_major(image)
    /\ NoDot(tags[Len(tags)].postgres_version)
    /\ tags[Len(tags)].spock_version = Some(spock_major(image))
    /\ NoDot(tags[Len(tags)].spock_version[1])
    /\ tags[Len(tags)].epoch = None

\* C13 as stated: with both latest flags extra_tags has 2 elements, never
\* more than 2 for any image, strictly ordered from more to less specific,
\* the last one with the major versions and no epoch
C13_TwoExtraTags ==
    Derived =>
        /\ Len(probe.out[1].extra_tags) <= 2
        /\ Coarsening(probe.out[1].extra_tags)
        /\ StrictlyOrdered(probe.out[1].extra_tags)
        /\ (probe.image.is_latest_for_pg_major /\ probe.image.is_latest_for_spock_major) =>
              /\ Len(probe.out[1].extra_tags) = 2
              /\ CoarsestIsMajors(probe.image, probe.out[1].extra_tags)

\* C13: with both latest flags extra_tags has 3 elements, never more than 3
\* for any image; the list goes from more to less specific, strictly so
\* when both versions have a minor part; with both flags the last alias
\* has the postgres major version and the spock major version and no epoch.
C13_ThreeExtraTags ==
    Derived =>
        /\ Len(probe.out[1].extra_tags) <= 3
        /\ Coarsening(probe.out[1].extra_tags)
        /\ (~NoDot(probe.image.postgres_version) /\ ~NoDot(probe.image.spock_version)) =>
              StrictlyOrdered(probe.out[1].extra_tags)
        /\ (probe.image.is_latest_for_pg_major /\ probe.image.is_latest_for_spock_major) =>
              /\ Len(probe.out[1].extra_tags) = 3
              /\ CoarsestIsMajors(probe.image, probe.out[1].extra_tags)

\* the tags of an image with both latest flags and full versions are derived
C13_Witness ==
    /\ Derived
    /\ probe.image.is_latest_for_pg_major
    /\ probe.image.is_latest_for_spock_major
    /\ ~NoDot(probe.image.postgres_version)
    /\ ~NoDot(probe.image.spock_version)

\* C14: when is_latest_for_spock_major is false, whatever
\* is_latest_for_pg_major is, extra_tags has exactly 1 element, and it is
\* the build tag with the epoch removed.
C14_SingleExtraTag ==
    (Derived /\ ~probe.image.is_latest_for_spock_major) =>
        /\ Len(probe.out[1].extra_tags) = 1
        /\ probe.out[1].extra_tags[1] = [probe.out[1].build_tag EXCEPT !.epoch = None]

\* the tags of an image latest for its postgres major only are derived
C14_Witness ==
    /\ Derived
    /\ ~probe.image.is_latest_for_spock_major
    /\ probe.image.is_latest_for_pg_major

-----------------------------------------------------------------------------
(* Tag rendering *)

TagFields == {"postgres_version", "spock_version", "epoch", "flavor"}

\* the fields on which two tags differ
DifferingFields(a, b) == {f \in TagFields : a[f] # b[f]}

\* C15: two tags with the same field values render the same string, and two
\* tags that differ in exactly one field (postgres version, spock version,
\* flavor or epoch, an epoch of 0 against no epoch included) render
\* different strings.
C15_RenderingSensitive ==
    (probe.kind = "render" /\ probe.out # None) =>
        /\ probe.a = probe.b => probe.out[1][1] = probe.out[1][2]
        /\ Cardinality(DifferingFields(probe.a, probe.b)) = 1 =>
              probe.out[1][1] # probe.out[1][2]

-----------------------------------------------------------------------------
(* The build command *)

\* the command has this argument
HasArg(cmd, arg) == \E k \in 1..Len(cmd) : cmd[k] = arg

\* C17: a build outside dry-run mode runs a command with --push, with
\* --no-cache exactly when no_cache is set, and with the platform override
\* of only_arch exactly when only_arch is set.
C17_BuildOptions ==
    (probe.kind = "build" /\ probe.out # None /\ ~probe.args.dry_run) =>
        /\ probe.out[1].invoked
        /\ HasArg(probe.out[1].cmd, "--push")
        /\ HasArg(probe.out[1].cmd, "--no-cache") <=> probe.args.no_cache
        /\ HasArg(probe.out[1].cmd, "--set") <=> (probe.args.only_arch # "")
        /\ probe.args.only_arch # "" =>
              HasArg(probe.out[1].cmd, "default.platforms=linux/" \o probe.args.only_arch)

====
